---- MODULE Spec2Model ----
(***************************************************************************)
(* Record codec of the SNS SDK: src/rust/src/record.rs                     *)
(*                                                                         *)
(* deserialize_record(data, record, record_key) is a pure function; the    *)
(* state machine below draws a call's arguments from bounded sets and runs *)
(* the call; the text a native record decoded to may then be decoded again *)
(* as the record's legacy encoding.  Byte buffers and Rust strings are     *)
(* sequences of byte values 0..255 (a String is its UTF-8 bytes).          *)
(*                                                                         *)
(* Record set of the CLI: src/cli/src/main.rs, process_record_set.  Each   *)
(* await of the function is a step that succeeds or returns its error.     *)
(***************************************************************************)
EXTENDS Integers, Sequences, FiniteSets, TLC

VARIABLES
    data,        \* the buffer of the current call
    record,      \* its record kind
    record_key,  \* the storage key of the record, 32 bytes
    result,      \* what the call returned, Pending before it ran
    pc,          \* "call" before deserialize_record ran, "done" after
    origin,      \* the native buffer whose decoded text data holds, or <<>>
    set_pc,      \* process_record_set: the step it is at, "idle" outside it
    new_len,     \* process_record_set: data.len() of the serialized record
    chain,       \* the record account on chain: [exists, space]
    acc,         \* what get_account_with_commitment returned: [some, len]
    ixs,         \* the instructions collected for the final transaction
    tx,          \* the final transaction as built, <<>> before
    txs          \* the transactions handed to the RPC: [ixs, confirmed]

codec_vars == <<data, record, record_key, result, pc, origin>>

set_vars == <<set_pc, new_len, chain, acc, ixs, tx, txs>>

vars == <<codec_vars, set_vars>>

(***************************************************************************)
(* Bounds of the model.                                                    *)
(***************************************************************************)
\* longest buffer enumerated exhaustively over ByteAlphabet
MaxLen == 2
\* longest serialized record and longest stored record of record set
MaxDataLen == 3
\* most zero bytes appended after a curated buffer
MaxPad == 2

(***************************************************************************)
(* Text helpers: the printable ASCII characters, code 32 first (the double  *)
(* quote, the backslash and the backtick are spelled out).                 *)
(***************************************************************************)
Ascii ==
    <<
       " ", "!", "dquote", "#", "$", "%", "&", "'", "(", ")", "*", "+", ",", "-", ".", "/",
       "0", "1", "2", "3", "4", "5", "6", "7", "8", "9", ":", ";", "<", "=", ">", "?",
       "@", "A", "B", "C", "D", "E", "F", "G", "H", "I", "J", "K", "L", "M", "N", "O",
       "P", "Q", "R", "S", "T", "U", "V", "W", "X", "Y", "Z", "[", "backslash", "]", "^", "_",
       "backtick", "a", "b", "c", "d", "e", "f", "g", "h", "i", "j", "k", "l", "m", "n", "o",
       "p", "q", "r", "s", "t", "u", "v", "w", "x", "y", "z", "{", "|", "}", "~"
    >>

Ord(c) == 31 + CHOOSE i \in DOMAIN Ascii : Ascii[i] = c

\* the bytes of a text written as a sequence of one-character strings
T(chars) == [i \in DOMAIN chars |-> Ord(chars[i])]

Repeat(b, n) == [i \in 1..n |-> b]

Records ==
    { "Ipfs", "Arwv", "Sol", "Eth", "Btc", "Ltc", "Doge", "Email", "Url",
      "Discord", "Github", "Reddit", "Twitter", "Telegram", "Pic", "Shdw",
      "Point", "Bsc", "Injective", "Backpack", "A", "AAAA", "CNAME", "TXT" }

\* Option<usize>: Some(n) is n, None is -1
None == -1

\* mutant: the Sol size taken as the signature alone, without dst
get_record_size_sol64(r) ==
    CASE r = "Sol" -> 64
      [] r \in {"Eth", "Bsc", "Injective"} -> 20
      [] r = "A" -> 4
      [] r = "AAAA" -> 16
      [] OTHER -> None

get_record_size(r) ==
    CASE r = "Sol" -> 96
      [] r \in {"Eth", "Bsc", "Injective"} -> 20
      [] r = "A" -> 4
      [] r = "AAAA" -> 16
      [] OTHER -> None

(***************************************************************************)
(* Result<String, SnsError>, with the branch that produced it.  An error   *)
(* raised by `?` on a library error e is SnsError::from(e); it is named by *)
(* the library error it converts.                                          *)
(***************************************************************************)
Ok(s, p)  == [kind |-> "Ok", val |-> s, err |-> "", path |-> p]
Err(e, p) == [kind |-> "Err", val |-> <<>>, err |-> e, path |-> p]
Panic(p)  == [kind |-> "Panic", val |-> <<>>, err |-> "", path |-> p]
Pending   == [kind |-> "Pending", val |-> <<>>, err |-> "", path |-> ""]

(***************************************************************************)
(* String::from_utf8: well-formed UTF-8 (RFC 3629, as core::str checks).   *)
(***************************************************************************)
IsCont(b) == b >= 128 /\ b <= 191

RECURSIVE Utf8ValidFrom(_, _)
Utf8ValidFrom(s, i) ==
    IF i > Len(s) THEN TRUE
    ELSE LET b == s[i]
             n == Len(s)
             c(k) == i + k <= n /\ IsCont(s[i + k])
         IN  CASE b < 128 -> Utf8ValidFrom(s, i + 1)
               [] b >= 194 /\ b <= 223 -> c(1) /\ Utf8ValidFrom(s, i + 2)
               [] b = 224 ->
                    c(1) /\ s[i + 1] >= 160 /\ c(2) /\ Utf8ValidFrom(s, i + 3)
               [] b = 237 ->
                    c(1) /\ s[i + 1] <= 159 /\ c(2) /\ Utf8ValidFrom(s, i + 3)
               [] b >= 225 /\ b <= 239 /\ b # 237 ->
                    c(1) /\ c(2) /\ Utf8ValidFrom(s, i + 3)
               [] b = 240 ->
                    c(1) /\ s[i + 1] >= 144 /\ c(2) /\ c(3)
                    /\ Utf8ValidFrom(s, i + 4)
               [] b >= 241 /\ b <= 243 ->
                    c(1) /\ c(2) /\ c(3) /\ Utf8ValidFrom(s, i + 4)
               [] b = 244 ->
                    c(1) /\ s[i + 1] <= 143 /\ c(2) /\ c(3)
                    /\ Utf8ValidFrom(s, i + 4)
               [] OTHER -> FALSE

from_utf8_ok(bytes) == Utf8ValidFrom(bytes, 1)

\* mutant: at most one trailing NUL removed (strip_suffix)
trim_one_nul(s) ==
    IF Len(s) > 0 /\ s[Len(s)] = 0 THEN SubSeq(s, 1, Len(s) - 1) ELSE s

\* str::trim_end_matches('\0')
RECURSIVE trim_end_matches_nul(_)
trim_end_matches_nul(s) ==
    IF Len(s) > 0 /\ s[Len(s)] = 0
    THEN trim_end_matches_nul(SubSeq(s, 1, Len(s) - 1))
    ELSE s

\* data.iter().rposition(|&byte| byte != 0).map_or(0, |pos| pos + 1)
RECURSIVE rposition_nonzero(_, _)
rposition_nonzero(bytes, n) ==
    IF n = 0 THEN 0
    ELSE IF bytes[n] # 0 THEN n ELSE rposition_nonzero(bytes, n - 1)

\* mutant: the length of the buffer, trailing zeros counted
significant_len_unstripped(bytes) == Len(bytes)

significant_len(bytes) == rposition_nonzero(bytes, Len(bytes))

(***************************************************************************)
(* hex::encode / hex::decode                                               *)
(***************************************************************************)
HexChar(n) == IF n < 10 THEN 48 + n ELSE 87 + n

hex_encode(bytes) ==
    [i \in 1..(2 * Len(bytes)) |->
        LET b == bytes[(i + 1) \div 2]
        IN  IF i % 2 = 1 THEN HexChar(b \div 16) ELSE HexChar(b % 16)]

\* char::to_digit(16) and hex's val(): -1 when c is no hex digit
HexVal(c) ==
    CASE c >= 48 /\ c <= 57 -> c - 48
      [] c >= 97 /\ c <= 102 -> c - 87
      [] c >= 65 /\ c <= 70 -> c - 55
      [] OTHER -> -1

\* Result<Vec<u8>, FromHexError>: OddLength, then InvalidHexCharacter
hex_decode(s) ==
    IF Len(s) % 2 = 1 THEN [ok |-> FALSE, bytes |-> <<>>]
    ELSE IF \E i \in DOMAIN s : HexVal(s[i]) < 0
         THEN [ok |-> FALSE, bytes |-> <<>>]
         ELSE [ok |-> TRUE,
               bytes |-> [i \in 1..(Len(s) \div 2) |->
                            16 * HexVal(s[2 * i - 1]) + HexVal(s[2 * i])]]

\* str::get(0..2) and str::get(2..): Some iff byte 2 is a char boundary
IsCharBoundary(s, i) ==
    i = 0 \/ i = Len(s) \/ (i < Len(s) /\ ~IsCont(s[i + 1]))

str_get_ok(s, from) == from <= Len(s) /\ IsCharBoundary(s, from)

(***************************************************************************)
(* std::net parser (core::net::parser).  A position is an index into the   *)
(* text, 1-based; NoParse is the parser's None.                            *)
(***************************************************************************)
NoParse == 0

DigitVal(c, radix) ==
    IF radix = 10 THEN (IF c >= 48 /\ c <= 57 THEN c - 48 ELSE -1)
    ELSE HexVal(c)

\* the digit loop of read_number: checked_mul/checked_add in the integer
\* type (maxval) and the max_digits test after every digit
RECURSIVE ReadDigits(_, _, _, _, _, _, _)
ReadDigits(s, pos, radix, max_digits, maxval, count, num) ==
    IF pos <= Len(s) /\ DigitVal(s[pos], radix) >= 0
    THEN LET num2 == num * radix + DigitVal(s[pos], radix)
         IN  IF num2 > maxval \/ count + 1 > max_digits
             THEN [pos |-> NoParse, count |-> 0, val |-> 0]
             ELSE ReadDigits(s, pos + 1, radix, max_digits, maxval,
                             count + 1, num2)
    ELSE [pos |-> pos, count |-> count, val |-> num]

read_number(s, pos, radix, max_digits, allow_zero_prefix, maxval) ==
    LET has_leading_zero == pos <= Len(s) /\ s[pos] = 48
        r == ReadDigits(s, pos, radix, max_digits, maxval, 0, 0)
    IN  IF r.pos = NoParse \/ r.count = 0 THEN [pos |-> NoParse, val |-> 0]
        ELSE IF ~allow_zero_prefix /\ has_leading_zero /\ r.count > 1
             THEN [pos |-> NoParse, val |-> 0]
             ELSE [pos |-> r.pos, val |-> r.val]

\* read_separator(sep, index, ..): the position after the separator
read_separator(s, pos, sep, index) ==
    IF index = 0 THEN pos
    ELSE IF pos <= Len(s) /\ s[pos] = sep THEN pos + 1 ELSE NoParse

RECURSIVE ReadIpv4Groups(_, _, _, _)
ReadIpv4Groups(s, pos, i, octets) ==
    IF i = 4 THEN [pos |-> pos, octets |-> octets]
    ELSE LET p1 == read_separator(s, pos, 46, i)
             n == IF p1 = NoParse THEN [pos |-> NoParse, val |-> 0]
                  ELSE read_number(s, p1, 10, 3, FALSE, 255)
         IN  IF n.pos = NoParse THEN [pos |-> NoParse, octets |-> <<>>]
             ELSE ReadIpv4Groups(s, n.pos, i + 1, Append(octets, n.val))

read_ipv4_addr(s, pos) == ReadIpv4Groups(s, pos, 0, <<>>)

\* address.parse::<Ipv4Addr>().is_ok(): the whole text must be consumed
parse_Ipv4Addr_ok(s) == read_ipv4_addr(s, 1).pos = Len(s) + 1

\* read_groups of read_ipv6_addr: groups read, whether an embedded IPv4
\* address ended them, and the position reached
RECURSIVE read_groups(_, _, _, _, _)
read_groups(s, pos, i, limit, groups) ==
    IF i >= limit THEN [pos |-> pos, groups |-> groups, ipv4 |-> FALSE]
    ELSE LET p1 == read_separator(s, pos, 58, i)
             v4 == IF i < limit - 1 /\ p1 # NoParse
                   THEN read_ipv4_addr(s, p1)
                   ELSE [pos |-> NoParse, octets |-> <<>>]
             g  == IF p1 = NoParse THEN [pos |-> NoParse, val |-> 0]
                   ELSE read_number(s, p1, 16, 4, TRUE, 65535)
         IN  IF v4.pos # NoParse
             THEN [pos |-> v4.pos,
                   groups |-> groups \o
                       << 256 * v4.octets[1] + v4.octets[2],
                          256 * v4.octets[3] + v4.octets[4] >>,
                   ipv4 |-> TRUE]
             ELSE IF g.pos = NoParse
                  THEN [pos |-> pos, groups |-> groups, ipv4 |-> FALSE]
                  ELSE read_groups(s, g.pos, i + 1, limit,
                                   Append(groups, g.val))

read_ipv6_addr(s, pos) ==
    LET head == read_groups(s, pos, 0, 8, <<>>)
        hs   == Len(head.groups)
    IN  IF hs = 8 THEN [pos |-> head.pos, groups |-> head.groups]
        ELSE IF head.ipv4 THEN [pos |-> NoParse, groups |-> <<>>]
        ELSE IF ~(head.pos + 1 <= Len(s) /\ s[head.pos] = 58
                  /\ s[head.pos + 1] = 58)
             THEN [pos |-> NoParse, groups |-> <<>>]
             ELSE LET tail == read_groups(s, head.pos + 2, 0, 8 - (hs + 1),
                                          <<>>)
                      ts   == Len(tail.groups)
                  IN  [pos |-> tail.pos,
                       groups |-> head.groups \o Repeat(0, 8 - hs - ts)
                                  \o tail.groups]

parse_Ipv6Addr_ok(s) == read_ipv6_addr(s, 1).pos = Len(s) + 1

(***************************************************************************)
(* Display of Ipv4Addr and Ipv6Addr                                        *)
(***************************************************************************)
RECURSIVE Decimal(_)
Decimal(n) ==
    IF n < 10 THEN <<48 + n>> ELSE Append(Decimal(n \div 10), 48 + (n % 10))

\* {:x} of a u16
RECURSIVE LowerHex(_)
LowerHex(n) ==
    IF n < 16 THEN <<HexChar(n)>>
    ELSE Append(LowerHex(n \div 16), HexChar(n % 16))

Ipv4Addr_to_string(b) ==
    Decimal(b[1]) \o <<46>> \o Decimal(b[2]) \o <<46>> \o Decimal(b[3])
    \o <<46>> \o Decimal(b[4])

\* segments(): eight big-endian u16
Segments(b) == [i \in 1..8 |-> 256 * b[2 * i - 1] + b[2 * i]]

\* fmt_subslice: the segments in hex, joined by ':'
RECURSIVE fmt_subslice(_)
fmt_subslice(segs) ==
    IF Len(segs) = 0 THEN <<>>
    ELSE IF Len(segs) = 1 THEN LowerHex(segs[1])
    ELSE LowerHex(segs[1]) \o <<58>> \o fmt_subslice(Tail(segs))

\* the first longest run of zero segments, as [start, len] (start 0-based)
RECURSIVE LongestZeroRun(_, _, _, _)
LongestZeroRun(segs, i, current, longest) ==
    IF i > Len(segs) THEN longest
    ELSE IF segs[i] = 0
         THEN LET cur == [start |-> IF current.len = 0 THEN i - 1
                                    ELSE current.start,
                          len |-> current.len + 1]
              IN  LongestZeroRun(segs, i + 1, cur,
                                 IF cur.len > longest.len THEN cur
                                 ELSE longest)
         ELSE LongestZeroRun(segs, i + 1, [start |-> 0, len |-> 0], longest)

Ipv6Addr_to_string(b) ==
    LET segs == Segments(b)
        zero == [start |-> 0, len |-> 0]
        run  == LongestZeroRun(segs, 1, zero, zero)
    IN  IF \A i \in 1..5 : segs[i] = 0 /\ segs[6] = 65535
        THEN T(<<":", ":", "f", "f", "f", "f", ":">>)
             \o Ipv4Addr_to_string(SubSeq(b, 13, 16))
        ELSE IF run.len > 1
             THEN fmt_subslice(SubSeq(segs, 1, run.start))
                  \o <<58, 58>>
                  \o fmt_subslice(SubSeq(segs, run.start + run.len + 1, 8))
             ELSE fmt_subslice(segs)

(***************************************************************************)
(* bech32 crate: to_base32, encode, decode                                 *)
(***************************************************************************)
RECURSIVE Xor(_, _)
Xor(a, b) ==
    IF a = 0 THEN b
    ELSE IF b = 0 THEN a
    ELSE 2 * Xor(a \div 2, b \div 2) + (((a % 2) + (b % 2)) % 2)

Pow2(n) == IF n = 0 THEN 1 ELSE 2 ^ n

\* "qpzry9x8gf2tvdw0s3jn54khce6mua7l"
Charset ==
    T(<< "q", "p", "z", "r", "y", "9", "x", "8", "g", "f", "2", "t", "v",
         "d", "w", "0", "s", "3", "j", "n", "5", "4", "k", "h", "c", "e",
         "6", "m", "u", "a", "7", "l" >>)

IsLower(c) == c >= 97 /\ c <= 122
IsUpper(c) == c >= 65 /\ c <= 90
ToLower(c) == IF IsUpper(c) THEN c + 32 ELSE c

\* CHARSET_REV: the 5-bit value of a character of either case, -1 if none
CharsetRev(c) ==
    IF \E i \in DOMAIN Charset : Charset[i] = ToLower(c)
    THEN (CHOOSE i \in DOMAIN Charset : Charset[i] = ToLower(c)) - 1
    ELSE -1

\* bit j (0-based, most significant first) of a byte string
BitAt(bytes, j) ==
    IF j >= 8 * Len(bytes) THEN 0
    ELSE (bytes[(j \div 8) + 1] \div Pow2(7 - (j % 8))) % 2

\* ToBase32: 8-bit groups regrouped to 5 bits, the last group zero-padded
to_base32(bytes) ==
    [i \in 1..((8 * Len(bytes) + 4) \div 5) |->
        16 * BitAt(bytes, 5 * (i - 1)) + 8 * BitAt(bytes, 5 * (i - 1) + 1)
        + 4 * BitAt(bytes, 5 * (i - 1) + 2)
        + 2 * BitAt(bytes, 5 * (i - 1) + 3) + BitAt(bytes, 5 * (i - 1) + 4)]

\* the generator of the BCH code, applied for the bits of the top 5 bits
Generator == <<996825010, 642813549, 513874426, 1027748829, 705979059>>

RECURSIVE ApplyGenerator(_, _, _)
ApplyGenerator(chk, top, i) ==
    IF chk >= 0 /\ i > 5 THEN chk
    ELSE ApplyGenerator(
             IF (top \div Pow2(i - 1)) % 2 = 1 THEN Xor(chk, Generator[i])
             ELSE chk,
             top, i + 1)

\* chk is a u32; the test chk >= 0 is always true
RECURSIVE PolymodFrom(_, _, _)
PolymodFrom(values, i, chk) ==
    IF chk >= 0 /\ i > Len(values) THEN chk
    ELSE PolymodFrom(values, i + 1,
             ApplyGenerator(Xor((chk % 33554432) * 32, values[i]),
                            chk \div 33554432, 1))

polymod(values) == PolymodFrom(values, 1, 1)

hrp_expand(hrp) ==
    [i \in DOMAIN hrp |-> hrp[i] \div 32] \o <<0>>
    \o [i \in DOMAIN hrp |-> hrp[i] % 32]

\* the six checksum values of Variant::Bech32 (constant 1)
create_checksum(hrp, values) ==
    LET plm == Xor(polymod(hrp_expand(hrp) \o values \o Repeat(0, 6)), 1)
    IN  [i \in 1..6 |-> (plm \div Pow2(5 * (6 - i))) % 32]

\* verify_checksum: Bech32 (1) or Bech32m (0x2bc830a3)
verify_checksum(hrp, values) ==
    polymod(hrp_expand(hrp) \o values) \in {1, 734539939}

\* check_hrp: 1..83 bytes, each in 33..126, not of mixed case
check_hrp_ok(hrp) ==
    /\ Len(hrp) >= 1 /\ Len(hrp) <= 83
    /\ \A i \in DOMAIN hrp : hrp[i] >= 33 /\ hrp[i] <= 126
    /\ ~((\E i \in DOMAIN hrp : IsLower(hrp[i]))
         /\ (\E i \in DOMAIN hrp : IsUpper(hrp[i])))

\* bech32::encode(hrp, data, Variant::Bech32): Result<String, Error>
bech32_encode(hrp, values) ==
    IF ~check_hrp_ok(hrp) THEN [ok |-> FALSE, text |-> <<>>]
    ELSE LET low == [i \in DOMAIN hrp |-> ToLower(hrp[i])]
             all == values \o create_checksum(low, values)
         IN  [ok |-> TRUE,
              text |-> low \o <<49>>
                       \o [i \in DOMAIN all |-> Charset[all[i] + 1]]]

\* str::rfind('1'): the 1-based index of the last '1', 0 if none
RECURSIVE rfind_sep(_, _)
rfind_sep(s, n) ==
    IF n = 0 THEN 0 ELSE IF s[n] = 49 THEN n ELSE rfind_sep(s, n - 1)

\* bech32::decode: Result<(String, Vec<u5>, Variant), Error>; every error
\* is a bech32::Error
bech32_decode(s) ==
    LET sep  == rfind_sep(s, Len(s))
        hrp  == SubSeq(s, 1, sep - 1)
        raw  == SubSeq(s, sep + 1, Len(s))
        low  == [i \in DOMAIN hrp |-> ToLower(hrp[i])]
        vals == [i \in DOMAIN raw |-> CharsetRev(raw[i])]
        bad  == [ok |-> FALSE, hrp |-> <<>>, data |-> <<>>]
    IN  IF sep = 0 THEN bad
        ELSE IF ~check_hrp_ok(hrp) THEN bad
        ELSE IF \E i \in DOMAIN raw : raw[i] >= 128 \/ vals[i] < 0 THEN bad
        ELSE IF (\E i \in DOMAIN s : IsLower(s[i]))
                /\ (\E i \in DOMAIN s : IsUpper(s[i])) THEN bad
        ELSE IF Len(vals) < 6 THEN bad
        ELSE IF ~verify_checksum(low, vals) THEN bad
        ELSE [ok |-> TRUE, hrp |-> low,
              data |-> SubSeq(vals, 1, Len(vals) - 6)]

(***************************************************************************)
(* Pubkey::to_string: bs58 of the 32 bytes                                 *)
(***************************************************************************)
Base58Alphabet ==
    T(<< "1", "2", "3", "4", "5", "6", "7", "8", "9", "A", "B", "C", "D",
         "E", "F", "G", "H", "J", "K", "L", "M", "N", "P", "Q", "R", "S",
         "T", "U", "V", "W", "X", "Y", "Z", "a", "b", "c", "d", "e", "f",
         "g", "h", "i", "j", "k", "m", "n", "o", "p", "q", "r", "s", "t",
         "u", "v", "w", "x", "y", "z" >>)

\* long division of a big-endian base-256 number by 58
RECURSIVE DivMod58(_, _, _, _)
DivMod58(num, i, rem, quot) ==
    IF rem >= 0 /\ Len(quot) >= 0 /\ i > Len(num)
    THEN [quot |-> quot, rem |-> rem]
    ELSE DivMod58(num, i + 1, (rem * 256 + num[i]) % 58,
                  Append(quot, (rem * 256 + num[i]) \div 58))

RECURSIVE StripLeadingZeros(_)
StripLeadingZeros(num) ==
    IF Len(num) > 0 /\ num[1] = 0 THEN StripLeadingZeros(Tail(num)) ELSE num

\* the base-58 digits of a number, most significant first
RECURSIVE Base58Digits(_)
Base58Digits(num) ==
    IF Len(num) = 0 THEN <<>>
    ELSE LET dm == DivMod58(num, 1, 0, <<>>)
         IN  Append(Base58Digits(StripLeadingZeros(dm.quot)),
                    Base58Alphabet[dm.rem + 1])

bs58_encode(bytes) ==
    LET body == StripLeadingZeros(bytes)
    IN  Repeat(49, Len(bytes) - Len(body)) \o Base58Digits(body)

Pubkey_to_string(bytes) == bs58_encode(bytes)

(***************************************************************************)
(* ed25519_dalek, as an ideal signature scheme.  Curve arithmetic is not   *)
(* computed: the 32-byte strings the model uses are classified by a table, *)
(* and the only signature that verifies for (key, message) is the one the  *)
(* deterministic signer of that key produces for that message.             *)
(***************************************************************************)
\* public keys whose private key signs in the model
SignerKeys == {Repeat(1, 32), Repeat(2, 32)}

\* a point of small order (y = 0): a well-formed key verify_strict rejects
SmallOrderKeys == {Repeat(0, 32)}

\* stands for a 32-byte string that is not the encoding of a curve point
OffCurveKeys == {Repeat(3, 32)}

\* Keypair::sign: R || S, 64 bytes, fixed by signer and message; the last
\* byte of S is below 32 (S is a scalar below 2^253) and may be zero
Sign(signer, msg) ==
    LET h == 5 * signer[1] + 7 * msg[1] + 3 * msg[Len(msg)]
    IN  <<signer[1] + 16, msg[1] + 1, msg[Len(msg)] + 1>> \o Repeat(7, 60)
        \o <<h % 16>>

\* PublicKey::from_bytes: Err unless 32 bytes that decompress to a point
PublicKey_from_bytes_ok(bytes) ==
    Len(bytes) = 32 /\ bytes \notin OffCurveKeys

\* Signature::from_bytes: Err unless 64 bytes with the top three bits of
\* the last byte clear
Signature_from_bytes_ok(bytes) == Len(bytes) = 64 /\ bytes[64] < 32

\* PublicKey::verify_strict(message, signature).is_ok()
verify_strict(key, msg, sig) == key \in SignerKeys /\ sig = Sign(key, msg)

\* Result<bool, SnsError>: "Err" for the `?` on a SignatureError
check_sol_record(rec, signed_record, pubkey) ==
    IF ~PublicKey_from_bytes_ok(pubkey) THEN "Err"
    ELSE IF ~Signature_from_bytes_ok(signed_record) THEN "Err"
    ELSE IF verify_strict(pubkey, rec, signed_record) THEN "true"
    ELSE "false"

(***************************************************************************)
(* deserialize_record                                                      *)
(***************************************************************************)
\* size.is_none(): the whole buffer as UTF-8, trailing NULs trimmed
deserialize_text(bytes) ==
    IF ~from_utf8_ok(bytes) THEN Err("From<FromUtf8Error>", "text")
    ELSE Ok(trim_end_matches_nul(bytes), "text")

\* mutant: the payload length taken in bytes, not in five-bit groups
legacy_bech32_ok_bytes(hrp, groups) ==
    hrp = T(<<"i", "n", "j">>) /\ Len(groups) = 20

\* prefix == "inj" && data.len() == 32 (32 five-bit groups are 20 bytes)
legacy_bech32_ok(hrp, groups) == hrp = T(<<"i", "n", "j">>) /\ Len(groups) = 32

\* mutant: the prefix is not compared
legacy_hex_ok_any_prefix(prefix, decoded) == Len(decoded) = 20

\* prefix == "0x" && decoded.len() == 20
legacy_hex_ok(prefix, decoded) ==
    prefix = T(<<"0", "x">>) /\ Len(decoded) = 20

\* mutant: a kind without legacy validation gets its text back
legacy_unvalidated_returned(address) == Ok(address, "legacy")

\* the `_ => {}` arm and the return after the match: a kind without
\* legacy validation (Sol) fails
legacy_unvalidated(address) == Err("InvalidReverse", "legacy")

\* size != idx: "Old record UTF-8 encoded"
deserialize_legacy(bytes, idx, r) ==
    LET address == SubSeq(bytes, 1, idx)
    IN  IF ~from_utf8_ok(address) THEN Err("From<FromUtf8Error>", "legacy")
        ELSE CASE r = "Injective" ->
                    LET d == bech32_decode(address)
                    IN  IF ~d.ok THEN Err("From<bech32::Error>", "legacy")
                        ELSE IF legacy_bech32_ok(d.hrp, d.data)
                             THEN Ok(address, "legacy")
                             ELSE Err("InvalidReverse", "legacy")
               [] r \in {"Eth", "Bsc"} ->
                    IF ~str_get_ok(address, 2)
                    THEN Err("InvalidRecordData", "legacy")
                    ELSE LET prefix  == SubSeq(address, 1, 2)
                             decoded ==
                                 hex_decode(SubSeq(address, 3, Len(address)))
                         IN  IF ~decoded.ok
                             THEN Err("From<FromHexError>", "legacy")
                             ELSE IF legacy_hex_ok(prefix, decoded.bytes)
                                  THEN Ok(address, "legacy")
                                  ELSE Err("InvalidReverse", "legacy")
               [] r = "A" ->
                    IF parse_Ipv4Addr_ok(address) THEN Ok(address, "legacy")
                    ELSE Err("InvalidReverse", "legacy")
               [] r = "AAAA" ->
                    IF parse_Ipv6Addr_ok(address) THEN Ok(address, "legacy")
                    ELSE Err("InvalidReverse", "legacy")
               [] OTHER -> legacy_unvalidated(address)

\* size == idx: "Properly sized record"
deserialize_native(bytes, r, key) ==
    CASE r = "Sol" ->
            IF Len(bytes) < 32 THEN Err("InvalidRecordData", "native")
            ELSE LET signature == SubSeq(bytes, 33, Len(bytes))
                     dst       == SubSeq(bytes, 1, 32)
                     expected  == dst \o key
                     valid     == check_sol_record(expected, signature, key)
                 IN  CASE valid = "Err" ->
                            Err("From<SignatureError>", "native")
                       [] valid = "true" ->
                            Ok(Pubkey_to_string(dst), "native")
                       [] OTHER -> Err("InvalidRecordData", "native")
      [] r \in {"Eth", "Bsc"} ->
            Ok(T(<<"0", "x">>) \o hex_encode(bytes), "native")
      [] r = "Injective" ->
            LET des == bech32_encode(T(<<"i", "n", "j">>), to_base32(bytes))
            IN  IF ~des.ok THEN Err("From<bech32::Error>", "native")
                ELSE Ok(des.text, "native")
      [] r = "A" ->
            IF Len(bytes) # 4 THEN Panic("native")
            ELSE Ok(Ipv4Addr_to_string(bytes), "native")
      [] r = "AAAA" ->
            IF Len(bytes) # 16 THEN Panic("native")
            ELSE Ok(Ipv6Addr_to_string(bytes), "native")
      [] OTHER -> Err("InvalidRecordData", "native")

deserialize_record(bytes, r, key) ==
    LET size == get_record_size(r)
        idx  == significant_len(bytes)
    IN  IF size = None THEN deserialize_text(bytes)
        ELSE IF size # idx THEN deserialize_legacy(bytes, idx, r)
        ELSE deserialize_native(bytes, r, key)

(***************************************************************************)
(* The calls the model makes.  Short buffers are enumerated exhaustively   *)
(* over ByteAlphabet; the others are the buffers below, each followed by   *)
(* 0..MaxPad zero bytes (the account's padding).                           *)
(***************************************************************************)
ByteAlphabet == {0, 1, 48, 255}

RECURSIVE SeqsUpTo(_, _)
SeqsUpTo(S, n) ==
    IF n = 0 THEN {<<>>}
    ELSE LET shorter == SeqsUpTo(S, n - 1)
         IN  shorter \cup {Append(s, b) : s \in shorter, b \in S}

ShortBuffers == SeqsUpTo(ByteAlphabet, MaxLen)

Padded(S) == {s \o Repeat(0, n) : s \in S, n \in 0..MaxPad}

Counting(n) == [i \in 1..n |-> i]

\* the short buffers continued with 0x01 bytes to n bytes
Filled(n) == {s \o Repeat(1, n - Len(s)) : s \in ShortBuffers}

\* free text: ASCII, two-byte character, inner NUL, invalid UTF-8
TextBuffers ==
    { T(<<"a", "b">>),
      <<97, 195, 169>>,
      <<97, 0, 98>>,
      <<0, 97>>,
      <<97, 255>>,
      <<97, 195>>,
      <<237, 160, 128>> }

\* A: native octets and legacy texts
Ipv4Buffers ==
    { <<127, 0, 0, 1>>,
      <<127, 0, 0, 0>>,
      Repeat(0, 4),
      <<10, 0, 0, 255>>,
      T(<<"1", "2", "7", ".", "0", ".", "0", ".", "1">>),
      T(<<"1", ".", "2", ".", "3", ".", "4">>),
      T(<<"1", ".", "2", ".", "3">>),
      T(<<"2", "5", "6", ".", "0", ".", "0", ".", "1">>),
      T(<<"0", "1", ".", "2", ".", "3", ".", "4">>),
      T(<<"1", ".", "2", ".", "3", ".", "4", ".", "5">>),
      T(<<":", ":", "1">>),
      T(<<"1", ".", "2", ".">>) }

\* AAAA: native octets and legacy texts
Ipv6Buffers ==
    { Repeat(0, 16),
      Repeat(0, 15) \o <<1>>,
      <<1>> \o Repeat(0, 15),
      <<32, 1, 13, 184>> \o Repeat(0, 11) \o <<1>>,
      Repeat(0, 10) \o <<255, 255, 1, 2, 3, 4>>,
      Counting(16),
      T(<<":", ":">>),
      T(<<":", ":", "1">>),
      T(<<"1", ":", ":", "2">>),
      T(<<"2", "0", "0", "1", ":", "d", "b", "8", ":", ":", "1">>),
      T(<<":", ":", "f", "f", "f", "f", ":", "1", ".", "2", ".", "3", ".", "4">>),
      T(<<"1", ":", "2", ":", "3">>),
      T(<<"1", ".", "2", ".", "3", ".", "4">>),
      T(<<"g", ":", ":">>),
      T(<<"1", ":", "2", ":", "3", ":", "4", ":", "5", ":", "6", ":", "7", ":", "8">>),
      T(<<"1", ":", "2", ":", "3", ":", "4", ":", "5", ":", "6", ":", "7", ":", "8", "9">>),
      T(<<"1", ":", "2", ":", "3", ":", "4", ":", "5", ":", "6", ":", "7", ":", ":">>),
      T(<<"1", "2", "3", "4", "5", ":", ":">>) }

Hex40 == hex_encode(Counting(20))

\* Eth, Bsc: native bytes and legacy texts
HexBuffers ==
    { Repeat(0, 20),
      Counting(20),
      Repeat(255, 20),
      <<1>> \o Repeat(0, 19),
      Repeat(48, 20),
      T(<<"0", "x">>) \o Hex40,
      T(<<"0", "x">>) \o hex_encode(Repeat(171, 20)),
      T(<<"0", "x">>) \o [i \in 1..40 |-> 65],
      T(<<"0", "X">>) \o Hex40,
      T(<<"1", "x">>) \o Hex40,
      T(<<"0", "x">>) \o SubSeq(Hex40, 1, 38),
      T(<<"0", "x">>) \o SubSeq(Hex40, 1, 39),
      T(<<"0", "x">>) \o [Hex40 EXCEPT ![7] = 103],
      T(<<"0", "x">>),
      T(<<"0">>),
      <<195, 169>> \o Hex40,
      <<48, 195, 169>> \o Hex40 }

Inj == T(<<"i", "n", "j">>)

InjText(bytes) == bech32_encode(Inj, to_base32(bytes)).text

\* Injective: native bytes and legacy texts
Bech32Buffers ==
    { Repeat(0, 20),
      Counting(20),
      Repeat(255, 20),
      <<1>> \o Repeat(0, 19),
      InjText(Counting(20)),
      InjText(Repeat(255, 20)),
      InjText(Repeat(0, 20)),
      [i \in 1..42 |-> IF IsLower(InjText(Counting(20))[i])
                       THEN InjText(Counting(20))[i] - 32
                       ELSE InjText(Counting(20))[i]],
      [InjText(Counting(20)) EXCEPT ![10] = 113],
      [InjText(Counting(20)) EXCEPT ![10] = 98],
      [InjText(Counting(20)) EXCEPT ![2] = 78],
      InjText(Counting(19)),
      InjText(Counting(21)),
      bech32_encode(T(<<"c", "o", "s", "m", "o", "s">>),
                    to_base32(Counting(20))).text,
      T(<<"a", "1", "2", "u", "e", "l", "5", "l">>),
      T(<<"i", "n", "j">>),
      T(<<"1", "q", "q", "q", "q", "q", "q">>),
      SubSeq(InjText(Counting(20)), 1, 20) }

\* the 32-byte identifiers of the model: signer keys, the small-order
\* key and the string that is no curve point
Keys == SignerKeys \cup SmallOrderKeys \cup OffCurveKeys

\* dst || sign(dst || storage_key) with the private key of signer
SolPayload(signer, dst, key) == dst \o Sign(signer, dst \o key)

\* byte i of the buffer with bit b flipped
FlipBit(bytes, i, b) ==
    [bytes EXCEPT ![i] = IF (bytes[i] \div Pow2(b)) % 2 = 1
                         THEN bytes[i] - Pow2(b) ELSE bytes[i] + Pow2(b)]

\* the signature bytes whose bits are flipped: first and last of R and S
FlipPositions == {33, 64, 65, 96}

SolCalls ==
    LET payloads ==
            {[data |-> SolPayload(s, d, k), record_key |-> k] :
                s \in SignerKeys, d \in Keys, k \in Keys}
        genuine ==
            {[data |-> SolPayload(s, d, k), record_key |-> k] :
                s \in SignerKeys, d \in SignerKeys, k \in SignerKeys}
        flipped ==
            {[data |-> FlipBit(c.data, i, b), record_key |-> c.record_key] :
                c \in genuine, i \in FlipPositions, b \in 0..7}
        cut ==
            {[data |-> SubSeq(c.data, 1, n), record_key |-> c.record_key] :
                c \in genuine, n \in {31, 32, 95}}
        padded ==
            {[data |-> c.data \o Repeat(0, n), record_key |-> c.record_key] :
                c \in payloads \cup cut, n \in 0..MaxPad}
    IN  padded \cup flipped

\* the storage key of the calls whose kind never reads it
AnyKey == Repeat(1, 32)

Call(d, r, k) == [data |-> d, record |-> r, record_key |-> k]

Calls ==
    {Call(d, r, AnyKey) :
        d \in ShortBuffers, r \in Records}
    \cup {Call(d, r, AnyKey) : d \in Padded(TextBuffers), r \in {"Url", "TXT"}}
    \cup {Call(d, "A", AnyKey) : d \in Padded(Ipv4Buffers)}
    \cup {Call(d, "AAAA", AnyKey) : d \in Padded(Ipv6Buffers)}
    \cup {Call(d, r, AnyKey) : d \in Padded(HexBuffers), r \in {"Eth", "Bsc"}}
    \cup {Call(d, "Injective", AnyKey) : d \in Padded(Bech32Buffers)}
    \cup {Call(d, r, AnyKey) : d \in Filled(20), r \in {"Eth", "Injective"}}
    \cup {Call(c.data, "Sol", c.record_key) : c \in SolCalls}
    \cup {Call(d, "Sol", AnyKey) : d \in Padded({T(<<"a", "b", "c">>)})}

(***************************************************************************)
(* The state machine.                                                      *)
(***************************************************************************)
TypeOK ==
    /\ record \in Records
    /\ pc \in {"call", "done", "idle"}
    /\ result.kind \in {"Pending", "Ok", "Err", "Panic"}
    /\ result.path \in {"", "text", "legacy", "native"}

Init ==
    /\ \E c \in Calls :
          /\ data = c.data
          /\ record = c.record
          /\ record_key = c.record_key
    /\ result = Pending
    /\ pc = "call"
    /\ origin = <<>>
    /\ set_pc = "idle"
    /\ new_len = 0
    /\ chain = [exists |-> FALSE, space |-> 0]
    /\ acc = [some |-> FALSE, len |-> 0]
    /\ ixs = <<>>
    /\ tx = <<>>
    /\ txs = <<>>

\* one call of deserialize_record
Deserialize ==
    /\ pc = "call"
    /\ result' = deserialize_record(data, record, record_key)
    /\ pc' = "done"
    /\ UNCHANGED <<data, record, record_key, origin>>
    /\ UNCHANGED set_vars

\* the text a native record decoded to, held as the same record's legacy
\* (UTF-8) encoding: the buffer of the next call
DecodeAgain ==
    /\ pc = "done"
    /\ origin = <<>>
    /\ result.kind = "Ok"
    /\ result.path = "native"
    /\ data' = result.val
    /\ origin' = data
    /\ result' = Pending
    /\ pc' = "call"
    /\ UNCHANGED <<record, record_key>>
    /\ UNCHANGED set_vars

Next == Deserialize \/ DecodeAgain

Spec == Init /\ [][Next]_vars

(***************************************************************************)
(* process_record_set (src/cli/src/main.rs).  The record account is the    *)
(* account at the record's key, known by the length of its data: a record  *)
(* is the 96-byte NameRecordHeader followed by its content, and an address *)
(* that only ever received lamports is an account with no data at all.     *)
(***************************************************************************)
Absent == [exists |-> FALSE, len |-> 0]

Stored(n) == [exists |-> TRUE, len |-> n + 96]

Bare == [exists |-> TRUE, len |-> 0]

\* mutant: the header is not subtracted from the account's length
needs_resize_no_header(value_len, data_len) == value_len # data_len

\* value.data.len() - NameRecordHeader::LEN != data.len() in usize, where
\* the subtraction did not panic: a wrapped difference is at least
\* 2^64 - 96, more than any data.len()
needs_resize(value_len, data_len) ==
    IF value_len < 96 THEN TRUE ELSE value_len - 96 # data_len

\* a `?` that returned its error: the function ends, nothing else changes
SetFail(unchanged) == set_pc' = "failed" /\ UNCHANGED unchanged

InitSet ==
    /\ set_pc = "start"
    /\ new_len \in 0..MaxDataLen
    /\ chain \in {Absent, Bare} \cup {Stored(n) : n \in 0..MaxDataLen}
    /\ acc = [some |-> FALSE, len |-> 0]
    /\ ixs = <<>>
    /\ tx = <<>>
    /\ txs = <<>>
    /\ data = <<>>
    /\ record = "TXT"
    /\ record_key = AnyKey
    /\ result = Pending
    /\ pc = "idle"
    /\ origin = <<>>

\* the record, the keypair, serialize_record and the keys
SetPrepare ==
    /\ set_pc = "start"
    /\ \E ok \in BOOLEAN :
          IF ok THEN set_pc' = "rent" ELSE set_pc' = "failed"
    /\ UNCHANGED <<new_len, chain, acc, ixs, tx, txs>>
    /\ UNCHANGED codec_vars

\* get_minimum_balance_for_rent_exemption
SetGetRent ==
    /\ set_pc = "rent"
    /\ \E ok \in BOOLEAN :
          IF ok THEN set_pc' = "account" ELSE set_pc' = "failed"
    /\ UNCHANGED <<new_len, chain, acc, ixs, tx, txs>>
    /\ UNCHANGED codec_vars

\* get_account_with_commitment
SetGetAccount ==
    /\ set_pc = "account"
    /\ \E ok \in BOOLEAN :
          IF ok
          THEN /\ acc' = [some |-> chain.exists, len |-> chain.len]
               /\ set_pc' = "branch"
          ELSE SetFail(<<acc>>)
    /\ UNCHANGED <<new_len, chain, ixs, tx, txs>>
    /\ UNCHANGED codec_vars

\* if let Some(value) = acc.value { if .. != .. {delete ..} } else {create}
\* the subtraction overflows on an account shorter than the header: a
\* build with overflow checks panics there, one without them wraps
SetBranch ==
    /\ set_pc = "branch"
    /\ IF acc.some
       THEN \/ /\ acc.len < 96
               /\ set_pc' = "panicked"
               /\ UNCHANGED ixs
            \/ IF needs_resize(acc.len, new_len)
               THEN \E ok \in BOOLEAN :
                       /\ set_pc' = IF ok THEN "delete_blockhash"
                                          ELSE "failed"
                       /\ UNCHANGED ixs
               ELSE set_pc' = "update" /\ UNCHANGED ixs
       ELSE \E ok \in BOOLEAN :
               IF ok
               THEN set_pc' = "update" /\ ixs' = Append(ixs, "create")
               ELSE SetFail(<<ixs>>)
    /\ UNCHANGED <<new_len, chain, acc, tx, txs>>
    /\ UNCHANGED codec_vars

\* the clean up transaction: get_latest_blockhash, sign
SetDeleteBlockhash ==
    /\ set_pc = "delete_blockhash"
    /\ \E ok \in BOOLEAN :
          IF ok THEN set_pc' = "delete_send" ELSE set_pc' = "failed"
    /\ UNCHANGED <<new_len, chain, acc, ixs, tx, txs>>
    /\ UNCHANGED codec_vars

\* send_and_confirm_transaction_with_spinner of the delete, then the create
\* instruction of the record
SetDeleteSend ==
    /\ set_pc = "delete_send"
    /\ \E confirmed \in BOOLEAN, ok \in BOOLEAN :
          /\ txs' = Append(txs, [ixs |-> <<"delete">>,
                                 confirmed |-> confirmed])
          /\ IF confirmed
             THEN /\ chain' = Absent
                  /\ IF ok
                     THEN set_pc' = "update" /\ ixs' = Append(ixs, "create")
                     ELSE SetFail(<<ixs>>)
             ELSE SetFail(<<chain, ixs>>)
    /\ UNCHANGED <<new_len, acc, tx>>
    /\ UNCHANGED codec_vars

\* the update instruction and Transaction::new_with_payer(&ixs, ..)
SetBuildUpdate ==
    /\ set_pc = "update"
    /\ \E ok \in BOOLEAN :
          IF ok
          THEN /\ ixs' = Append(ixs, "update")
               /\ tx' = Append(ixs, "update")
               /\ set_pc' = "final_blockhash"
          ELSE SetFail(<<ixs, tx>>)
    /\ UNCHANGED <<new_len, chain, acc, txs>>
    /\ UNCHANGED codec_vars

\* get_latest_blockhash, sign
SetFinalBlockhash ==
    /\ set_pc = "final_blockhash"
    /\ \E ok \in BOOLEAN :
          IF ok THEN set_pc' = "final_send" ELSE set_pc' = "failed"
    /\ UNCHANGED <<new_len, chain, acc, ixs, tx, txs>>
    /\ UNCHANGED codec_vars

\* send_and_confirm_transaction_with_spinner_and_commitment
SetFinalSend ==
    /\ set_pc = "final_send"
    /\ \E confirmed \in BOOLEAN :
          /\ txs' = Append(txs, [ixs |-> tx, confirmed |-> confirmed])
          /\ IF confirmed
             THEN /\ chain' = Stored(new_len)
                  /\ set_pc' = "ok"
             ELSE SetFail(<<chain>>)
    /\ UNCHANGED <<new_len, acc, ixs, tx>>
    /\ UNCHANGED codec_vars

NextSet ==
    \/ SetPrepare
    \/ SetGetRent
    \/ SetGetAccount
    \/ SetBranch
    \/ SetDeleteBlockhash
    \/ SetDeleteSend
    \/ SetBuildUpdate
    \/ SetFinalBlockhash
    \/ SetFinalSend

SpecSet == InitSet /\ [][NextSet]_vars

(***************************************************************************)
(* Properties                                                              *)
(***************************************************************************)
Done == pc = "done"

Dst == SubSeq(data, 1, 32)

\* the index one past the last non-zero byte, 0 for an all-zero buffer,
\* stated without the scan the code makes
SignificantLength(bytes) ==
    IF \A i \in DOMAIN bytes : bytes[i] = 0 THEN 0
    ELSE CHOOSE n \in DOMAIN bytes :
             bytes[n] # 0 /\ \A j \in DOMAIN bytes : j > n => bytes[j] = 0

\* the signature bytes[32..] is the one the holder of dst makes over
\* dst || storage key
SignedByDst ==
    /\ Len(data) >= 96
    /\ verify_strict(Dst, Dst \o record_key, SubSeq(data, 33, Len(data)))

\* C1: a Sol payload dst || sign(dst || storage_key), signed with the
\* private key of dst, is accepted for any storage key, and the call
\* returns the base-58 text of dst.
C1_DstSignedPayloadAccepted ==
    (Done /\ record = "Sol"
     /\ \E d \in SignerKeys : data = SolPayload(d, d, record_key))
    => (result.kind = "Ok" /\ result.val = Pubkey_to_string(Dst))

\* C2: for Sol, a value is returned only when bytes[32..] verifies with
\* bytes[0..32] as the signer over dst || storage_key.
C2_ValueOnlyIfSignedByDst ==
    (Done /\ record = "Sol" /\ result.kind = "Ok") => SignedByDst

\* C3: for a fixed-size kind the native path is taken exactly when the
\* significant length equals the expected size and the legacy path
\* otherwise; a buffer shorter than the expected size with no trailing zero
\* takes the legacy path.
C3_NativeIffSignificantLengthIsSize ==
    (Done /\ get_record_size(record) # None)
    => /\ result.path \in {"native", "legacy"}
       /\ result.path = "native"
            <=> SignificantLength(data) = get_record_size(record)
       /\ (Len(data) < get_record_size(record)
           /\ (Len(data) = 0 \/ data[Len(data)] # 0))
            => result.path = "legacy"

\* a buffer shorter than the expected size, with no trailing zero, went
\* down the legacy path
C3_Witness ==
    /\ Done /\ record = "Eth"
    /\ Len(data) = 2 /\ data[2] # 0
    /\ result.path = "legacy"

\* C4: for Eth and Bsc, any 20-byte buffer decodes to "0x" followed by the
\* lowercase hex of those 20 bytes; 20 zero bytes decode to "0x" and forty
\* zeros.
C4_TwentyBytesDecodeToHex ==
    (Done /\ record \in {"Eth", "Bsc"} /\ Len(data) = 20)
    => /\ result.kind = "Ok"
       /\ result.val = T(<<"0", "x">>) \o hex_encode(data)
       /\ data = Repeat(0, 20)
            => result.val = T(<<"0", "x">>) \o Repeat(48, 40)

\* C5: for A and AAAA, any buffer of exactly the expected size decodes to
\* the formatted address of its bytes; [127,0,0,1] gives "127.0.0.1" and 16
\* zero bytes give "::".
C5_FullSizeBufferDecodesToAddress ==
    /\ (Done /\ record = "A" /\ Len(data) = 4)
        => /\ result.kind = "Ok"
           /\ result.val = Ipv4Addr_to_string(data)
           /\ data = <<127, 0, 0, 1>>
                => result.val =
                       T(<<"1", "2", "7", ".", "0", ".", "0", ".", "1">>)
    /\ (Done /\ record = "AAAA" /\ Len(data) = 16)
        => /\ result.kind = "Ok"
           /\ result.val = Ipv6Addr_to_string(data)
           /\ data = Repeat(0, 16) => result.val = T(<<":", ":">>)

\* C6: every call returns Ok or Err; no buffer, kind or storage key makes
\* the call panic.
C6_NeverPanics == Done => result.kind \in {"Ok", "Err"}

\* the errors `?` raises from a library error: their SnsError variants are
\* set by the From implementations, which these sources do not hold
ConvertedErrors ==
    { "From<FromUtf8Error>", "From<bech32::Error>", "From<FromHexError>",
      "From<SignatureError>" }

\* the text of a legacy-encoded record
LegacyText == SubSeq(data, 1, SignificantLength(data))

OnLegacyPathWithText ==
    /\ Done
    /\ get_record_size(record) # None
    /\ result.path = "legacy"
    /\ from_utf8_ok(LegacyText)

IsHexDigit(c) ==
    (c >= 48 /\ c <= 57) \/ (c >= 97 /\ c <= 102) \/ (c >= 65 /\ c <= 70)

\* the legacy validation of each kind, as the address formats state it
PassesLegacyValidation(r, text) ==
    CASE r \in {"Eth", "Bsc"} ->
            /\ Len(text) = 42
            /\ text[1] = 48 /\ text[2] = 120
            /\ \A i \in 3..42 : IsHexDigit(text[i])
      [] r = "Injective" ->
            /\ bech32_decode(text).ok
            /\ bech32_decode(text).hrp = Inj
            /\ 5 * Len(bech32_decode(text).data) = 8 * 20
      [] r = "A" -> parse_Ipv4Addr_ok(text)
      [] r = "AAAA" -> parse_Ipv6Addr_ok(text)
      [] OTHER -> FALSE

\* the error of a text that does not pass
LegacyError(r, text) ==
    CASE r \in {"Eth", "Bsc"} ->
            IF Len(text) < 2 \/ (Len(text) > 2 /\ IsCont(text[3]))
            THEN "InvalidRecordData"
            ELSE IF Len(text) % 2 = 1
                    \/ \E i \in 3..Len(text) : ~IsHexDigit(text[i])
                 THEN "From<FromHexError>"
                 ELSE "InvalidReverse"
      [] r = "Injective" ->
            IF bech32_decode(text).ok THEN "InvalidReverse"
            ELSE "From<bech32::Error>"
      [] OTHER -> "InvalidReverse"

C8_UnverifiedOrMalformedFails ==
    (Done /\ record = "Sol" /\ result.path = "native"
     /\ (\/ ~PublicKey_from_bytes_ok(Dst)
         \/ ~Signature_from_bytes_ok(SubSeq(data, 33, Len(data)))
         \/ ~SignedByDst))
    => /\ result.kind = "Err"
       /\ result.err \in {"InvalidRecordData", "From<SignatureError>"}

\* C9: for a text kind, valid UTF-8 followed by any number of NUL bytes
\* decodes to the content with every trailing NUL stripped, and a buffer
\* that is not valid UTF-8 fails with the UTF-8 decode error.
C9_TextKindStripsNulPadding ==
    (Done /\ get_record_size(record) = None)
    => IF from_utf8_ok(data)
       THEN /\ result.kind = "Ok"
            /\ \E n \in 0..Len(data) : data = result.val \o Repeat(0, n)
            /\ (Len(result.val) = 0 \/ result.val[Len(result.val)] # 0)
       ELSE result.kind = "Err" /\ result.err = "From<FromUtf8Error>"

\* a text followed by two NUL bytes decoded to the text alone
C9_Witness ==
    /\ Done /\ record = "Url"
    /\ Len(data) = 4 /\ data[1] # 0 /\ data[2] # 0
    /\ data[3] = 0 /\ data[4] = 0
    /\ result.kind = "Ok" /\ Len(result.val) = 2

\* bit j (0-based, most significant first) of a string of 5-bit groups
GroupBit(groups, j) == (groups[(j \div 5) + 1] \div Pow2(4 - (j % 5))) % 2

\* the bytes a string of 5-bit groups holds (FromBase32)
FromBase32(groups) ==
    [i \in 1..((5 * Len(groups)) \div 8) |->
        128 * GroupBit(groups, 8 * (i - 1))
        + 64 * GroupBit(groups, 8 * (i - 1) + 1)
        + 32 * GroupBit(groups, 8 * (i - 1) + 2)
        + 16 * GroupBit(groups, 8 * (i - 1) + 3)
        + 8 * GroupBit(groups, 8 * (i - 1) + 4)
        + 4 * GroupBit(groups, 8 * (i - 1) + 5)
        + 2 * GroupBit(groups, 8 * (i - 1) + 6)
        + GroupBit(groups, 8 * (i - 1) + 7)]

FixedLayoutSize ==
    [r \in Records |->
        CASE r = "Sol" -> 96
          [] r = "Eth" -> 20
          [] r = "Bsc" -> 20
          [] r = "Injective" -> 20
          [] r = "A" -> 4
          [] r = "AAAA" -> 16
          [] OTHER -> None]

\* C11: get_record_size is total on the record kinds: Some(96) for Sol,
\* Some(20) for Eth, Bsc and Injective, Some(4) for A, Some(16) for AAAA and
\* None for every other kind; a call takes the text branch exactly for the
\* kinds of size None.
C11_RecordSizeTable ==
    /\ \A r \in Records : get_record_size(r) = FixedLayoutSize[r]
    /\ Done => (result.path = "text" <=> FixedLayoutSize[record] = None)

\* a Sol buffer of significant length 96 was taken as a sized record
C11_Witness ==
    /\ Done /\ record = "Sol" /\ origin = <<>>
    /\ SignificantLength(data) = 96
    /\ result.path = "native"

\* C13: for Sol, every buffer whose significant length is not 96 fails,
\* with the UTF-8 decode error or with InvalidReverse: the legacy path
\* validates nothing for Sol, so a Sol value is returned only by the native
\* path, after check_sol_record accepted the signature.
C13_SolLegacyAlwaysFails ==
    (Done /\ record = "Sol")
    => /\ SignificantLength(data) # 96
            => /\ result.kind = "Err"
               /\ result.err = IF from_utf8_ok(LegacyText)
                               THEN "InvalidReverse"
                               ELSE "From<FromUtf8Error>"
       /\ result.kind = "Ok"
            => /\ result.path = "native"
               /\ check_sol_record(Dst \o record_key,
                                   SubSeq(data, 33, Len(data)),
                                   record_key) = "true"

\* a genuine payload whose signature ends in a zero byte, of significant
\* length 95, failed on the legacy path
C13_Witness ==
    /\ Done /\ record = "Sol"
    /\ Len(data) = 96 /\ SignificantLength(data) = 95
    /\ result.kind = "Err" /\ result.err = "InvalidReverse"

\* process_record_set has built its final transaction
Built == tx # <<>>

\* the fetched account is a record whose content is as long as the new data
SameLength == acc.some /\ acc.len = new_len + 96

\* the fetched account exists and its stored length is not the new one
LengthDiffers == acc.some /\ acc.len # new_len + 96

Fetched == set_pc \notin {"start", "rent", "account"}

Issued(ix) ==
    \/ \E i \in 1..Len(ixs) : ixs[i] = ix
    \/ \E i \in 1..Len(txs) : \E j \in 1..Len(txs[i].ixs) : txs[i].ixs[j] = ix

DeleteConfirmedAt(i) ==
    i \in 1..Len(txs) /\ txs[i] = [ixs |-> <<"delete">>, confirmed |-> TRUE]

\* C14: in process_record_set the final transaction ends with the update
\* instruction and has a create before it exactly when the fetched account
\* is absent or its stored length differs from the new data length; when
\* the length differs, a delete has been sent and confirmed in a
\* transaction of its own before the final transaction is built and before
\* it is sent; when the account exists with the same length, no delete and
\* no create is issued.
C14_FinalTransactionShape ==
    /\ Built
         => /\ tx[Len(tx)] = "update"
            /\ tx = ixs
            /\ IF ~acc.some \/ LengthDiffers
               THEN tx = <<"create", "update">>
               ELSE tx = <<"update">>
    /\ (Built /\ LengthDiffers)
         => /\ DeleteConfirmedAt(1)
            /\ \A i \in 1..Len(txs) : txs[i].ixs = tx => i > 1
    /\ \A i \in 1..Len(txs) :
         txs[i].ixs \in {<<"delete">>, <<"create", "update">>, <<"update">>}
    /\ (Fetched /\ ~LengthDiffers) => ~Issued("delete")
    /\ (Fetched /\ SameLength) => ~Issued("create")

\* the stored record was shorter than the new data: the delete was confirmed
\* first, then the create and update went out in the final transaction
C14_Witness ==
    /\ set_pc = "ok"
    /\ acc.some /\ acc.len = 96 + 1 /\ new_len = 2
    /\ tx = <<"create", "update">>
    /\ txs = << [ixs |-> <<"delete">>, confirmed |-> TRUE],
                [ixs |-> <<"create", "update">>, confirmed |-> TRUE] >>

====
